---- MODULE Spec2Model ----
(***************************************************************************)
(* Batch normalization of chainerx (routines/normalization.cc): the        *)
(* preprocessing of the operands, the training forward operator with its   *)
(* in-place update of the running statistics and its state capture, the    *)
(* fixed (inference) forward, and the two entry points BatchNorm and       *)
(* FixedBatchNorm.                                                         *)
(*                                                                         *)
(* Numbers.  A floating value is a record: a finite value [k |-> "fin"]    *)
(* counted in units of 1/One, or NaN, or an infinity with its sign.  Each  *)
(* floating dtype has a grid (the spacing of its representable values);    *)
(* every array operation computes the exact result and rounds it to the    *)
(* grid of the dtype it works in, so a cast to a narrower dtype loses      *)
(* digits.  Scalars (eps, decay) are host doubles, kept exact.             *)
(*                                                                         *)
(* Arrays.  An array is a handle (body, data, shape, dtype) on a buffer    *)
(* of mem; two handles with the same data share storage.  The caller       *)
(* passes five distinct arrays.                                            *)
(***************************************************************************)
EXTENDS Integers, Sequences, FiniteSets, TLC

\* ------------------------------------------------------------- bounds
\* Largest rank of x and of the auxiliary arrays.
MaxRank == 2
\* Largest extent of one dimension.
MaxExtent == 2

\* ------------------------------------------------------------- dtypes
FloatDtypes == {"float16", "float32", "float64"}
Dtypes == FloatDtypes \cup {"int32"}

\* GetKind(dtype): the kind of a dtype.
GetKind(dt) == IF dt \in FloatDtypes THEN "kFloat" ELSE "kInt"

\* Precision rank of a floating dtype.
Prec(dt) == CASE dt = "float16" -> 1 [] dt = "float32" -> 2 [] dt = "float64" -> 3 [] OTHER -> 0

\* Spacing of the representable values of a dtype, in units.
Grid(dt) == CASE dt = "float64" -> 1 [] dt = "float32" -> 2 [] OTHER -> 4

\* The value 1.0 in units: representable in every floating dtype.
One == Grid("float16")

\* ResultType of floating dtypes: the widest of them.
ResultType(dts) == CHOOSE d \in dts : \A e \in dts : Prec(e) <= Prec(d)

\* ------------------------------------------------------------- values
Fin(v) == [k |-> "fin", v |-> v]
NaN == [k |-> "nan", v |-> 0]
Inf(s) == [k |-> "inf", v |-> s]
Uninit == [k |-> "uninit", v |-> 0]

IsFinite(a) == a.k = "fin"

Sign(i) == IF i > 0 THEN 1 ELSE IF i < 0 THEN -1 ELSE 0

\* floor(num/den + 1/2) for den > 0.
RoundDiv(num, den) == (2 * num + den) \div (2 * den)

\* num/den (den > 0) rounded to the grid of dt.
RoundTo(dt, num, den) == Fin(Grid(dt) * RoundDiv(num, den * Grid(dt)))

\* Array::AsType on one element.
Cast(dt, a) == IF IsFinite(a) THEN RoundTo(dt, a.v, 1) ELSE a

FAdd(dt, a, b) ==
    IF a.k = "nan" \/ b.k = "nan" THEN NaN
    ELSE IF a.k = "inf" /\ b.k = "inf" THEN (IF a.v = b.v THEN a ELSE NaN)
    ELSE IF a.k = "inf" THEN a
    ELSE IF b.k = "inf" THEN b
    ELSE RoundTo(dt, a.v + b.v, 1)

FNeg(a) == IF a.k = "nan" THEN NaN ELSE [k |-> a.k, v |-> 0 - a.v]

FSub(dt, a, b) == FAdd(dt, a, FNeg(b))

\* Product of two array elements (both in units, so the product is over One).
FMul(dt, a, b) ==
    IF a.k = "nan" \/ b.k = "nan" THEN NaN
    ELSE IF a.k = "inf" \/ b.k = "inf"
         THEN (IF Sign(a.v) * Sign(b.v) = 0 THEN NaN ELSE Inf(Sign(a.v) * Sign(b.v)))
    ELSE RoundTo(dt, a.v * b.v, One)

\* Product of an array element by the exact host scalar num/den (den > 0).
FScale(dt, num, den, a) ==
    IF a.k = "nan" THEN NaN
    ELSE IF a.k = "inf" THEN (IF num = 0 THEN NaN ELSE Inf(Sign(num) * a.v))
    ELSE RoundTo(dt, num * a.v, den)

\* Quotient of an array element by the integer count n >= 0 (Mean's division).
FDivN(dt, a, n) ==
    IF a.k = "nan" THEN NaN
    ELSE IF n = 0 THEN (IF a.k = "fin" /\ a.v = 0 THEN NaN
                        ELSE IF a.k = "fin" THEN Inf(Sign(a.v)) ELSE a)
    ELSE IF a.k = "inf" THEN a
    ELSE RoundTo(dt, a.v, n)

\* Integer square root, rounded to nearest.
ISqrt(m) ==
    CHOOSE r \in 0..m : /\ (r = 0 \/ (2 * r - 1) * (2 * r - 1) <= 4 * m)
                        /\ 4 * m < (2 * r + 1) * (2 * r + 1)

FSqrt(dt, a) ==
    IF a.k = "nan" THEN NaN
    ELSE IF a.k = "inf" THEN (IF a.v > 0 THEN a ELSE NaN)
    ELSE IF a.v < 0 THEN NaN
    ELSE RoundTo(dt, ISqrt(a.v * One), 1)

FReciprocal(dt, a) ==
    IF a.k = "nan" THEN NaN
    ELSE IF a.k = "inf" THEN Fin(0)
    ELSE IF a.v = 0 THEN Inf(1)
    ELSE IF a.v > 0 THEN RoundTo(dt, One * One, a.v)
    ELSE FNeg(RoundTo(dt, One * One, 0 - a.v))

\* ------------------------------------------------------------- shapes
RECURSIVE ProdFrom(_, _)
\* Product of shape[d..Len(shape)].
ProdFrom(shape, d) == IF d > Len(shape) THEN 1 ELSE shape[d] * ProdFrom(shape, d + 1)

\* Shape::GetTotalSize / Array::GetTotalSize.
GetTotalSize(shape) == ProdFrom(shape, 1)

\* The set of the entries of a sequence.
Range(s) == {s[i] : i \in DOMAIN s}

\* internal::GetSortedAxes(axis, ndim): negative indices are resolved against
\* ndim, every index must be in range and none repeated; the result is sorted.
NormalizeAxis(ax, ndim) == IF ax < 0 THEN ax + ndim ELSE ax

GetSortedAxes(axis, ndim) ==
    LET res == [i \in DOMAIN axis |-> NormalizeAxis(axis[i], ndim)]
        inRange == \A i \in DOMAIN res : 0 <= res[i] /\ res[i] < ndim
        unique == \A i, j \in DOMAIN res : i # j => res[i] # res[j]
        sorted == CHOOSE t \in [1..Len(res) -> Range(res)] :
                      /\ Range(t) = Range(res)
                      /\ \A i \in 1..(Len(res) - 1) : t[i] < t[i + 1]
    IN  IF inRange /\ unique THEN [err |-> "none", axes |-> sorted]
        ELSE [err |-> "AxisError", axes |-> <<>>]

\* internal::ReduceShape(shape, axes, keepdims = true): every selected axis
\* that the shape has is set to extent 1.
ReduceShape(shape, axes) == [d \in DOMAIN shape |-> IF (d - 1) \in Range(axes) THEN 1 ELSE shape[d]]

\* Row-major multi-index (0-based entries) of flat position i (1-based).
Unravel(shape, i) == [d \in DOMAIN shape |-> ((i - 1) \div ProdFrom(shape, d + 1)) % shape[d]]

RECURSIVE RavelFrom(_, _, _)
RavelFrom(shape, idx, d) ==
    IF d > Len(shape) THEN 0 ELSE idx[d] * ProdFrom(shape, d + 1) + RavelFrom(shape, idx, d + 1)

\* The flat position (1-based) in the reduced shape of the cell that element
\* i of an array of shape `shape` broadcasts against.
CellOf(shape, axes, i) ==
    LET idx == Unravel(shape, i)
        kept == [d \in DOMAIN shape |-> IF (d - 1) \in Range(axes) THEN 0 ELSE idx[d]]
    IN  1 + RavelFrom(ReduceShape(shape, axes), kept, 1)

\* The elements of x that are reduced into cell j.
Members(shape, axes, j) == {i \in 1..GetTotalSize(shape) : CellOf(shape, axes, i) = j}

\* ------------------------------------------------------------- arrays
\* An array handle.  body: the identity of the array body; data: the buffer
\* of mem it reads and writes; permits: its layout lets Reshape merge its
\* dimensions in a view (a transposed matrix does not); grad: it is attached
\* to the autograd graph.
Arr(name, shape, dtype, permits, grad) ==
    [body |-> <<name>>, data |-> <<name>>, shape |-> shape, dtype |-> dtype,
     permits |-> permits, grad |-> grad]

\* Array::AsGradStopped: a view of the same data, detached from the graph.
AsGradStopped(a) == [a EXCEPT !.body = Append(a.body, "gradstopped"), !.grad = FALSE]

\* A shape without its dimensions of extent 1.
Squeeze(shape) == SelectSeq(shape, LAMBDA e : e # 1)

\* Array::Reshape to a shape of the same total size: a view on the same data
\* when the layout permits, a reshaped copy otherwise.  Adding or dropping
\* dimensions of extent 1, and reshaping at most one element, never copies.
Reshape(a, shape) ==
    IF a.permits \/ Squeeze(a.shape) = Squeeze(shape) \/ GetTotalSize(a.shape) <= 1
    THEN [a EXCEPT !.body = Append(a.body, "reshape"), !.shape = shape]
    ELSE [a EXCEPT !.body = Append(a.body, "copy"), !.data = Append(a.data, "copy"),
                   !.shape = shape, !.permits = TRUE]

ReshapeOrIdentity(a, shape) == IF a.shape = shape THEN a ELSE Reshape(a, shape)

CheckBatchNormSupportedKind(a) == GetKind(a.dtype) = "kFloat"

\* A mistaken PreprocessBatchNorm that does not check the size of var.
PreprocessBatchNormSkipsVar(x, gamma, beta, mean, var, axis, dbg) ==
    LET sel == IF axis.has THEN GetSortedAxes(axis.v, Len(x.shape))
               ELSE [err |-> "none", axes |-> <<0>>]
        reduced_shape == ReduceShape(x.shape, sel.axes)
        reduced_size == GetTotalSize(reduced_shape)
        fail(e) == [err |-> e, gamma |-> gamma, beta |-> beta, mean |-> mean, var |-> var,
                    sorted_axis |-> <<>>]
    IN  IF ~(\A a \in {x, gamma, beta, mean, var} : CheckBatchNormSupportedKind(a))
        THEN fail("DtypeError")
        ELSE IF sel.err # "none" THEN fail(sel.err)
        ELSE IF GetTotalSize(gamma.shape) # reduced_size THEN fail("DimensionError")
        ELSE IF GetTotalSize(beta.shape) # reduced_size THEN fail("DimensionError")
        ELSE IF GetTotalSize(mean.shape) # reduced_size THEN fail("DimensionError")
        ELSE [err |-> "none",
              gamma |-> ReshapeOrIdentity(gamma, reduced_shape),
              beta |-> ReshapeOrIdentity(beta, reduced_shape),
              mean |-> ReshapeOrIdentity(mean, reduced_shape),
              var |-> ReshapeOrIdentity(var, reduced_shape), sorted_axis |-> sel.axes]

\* PreprocessBatchNorm.  err is the error thrown ("none": it returns);
\* "assert" is a failed CHAINERX_ASSERT, which only a debug build evaluates.
PreprocessBatchNorm(x, gamma, beta, mean, var, axis, dbg) ==
    LET sel == IF axis.has THEN GetSortedAxes(axis.v, Len(x.shape))
               ELSE [err |-> "none", axes |-> <<0>>]
        sorted_axis == sel.axes
        reduced_shape == ReduceShape(x.shape, sorted_axis)
        reduced_size == GetTotalSize(reduced_shape)
        gamma_reshaped == ReshapeOrIdentity(gamma, reduced_shape)
        beta_reshaped == ReshapeOrIdentity(beta, reduced_shape)
        mean_reshaped == ReshapeOrIdentity(mean, reduced_shape)
        var_reshaped == ReshapeOrIdentity(var, reduced_shape)
        fail(e) == [err |-> e, gamma |-> gamma, beta |-> beta, mean |-> mean, var |-> var,
                    sorted_axis |-> <<>>]
    IN  IF ~(\A a \in {x, gamma, beta, mean, var} : CheckBatchNormSupportedKind(a))
        THEN fail("DtypeError")
        ELSE IF sel.err # "none" THEN fail(sel.err)
        ELSE IF GetTotalSize(gamma.shape) # reduced_size THEN fail("DimensionError")
        ELSE IF GetTotalSize(beta.shape) # reduced_size THEN fail("DimensionError")
        ELSE IF GetTotalSize(mean.shape) # reduced_size THEN fail("DimensionError")
        ELSE IF GetTotalSize(var.shape) # reduced_size THEN fail("DimensionError")
        ELSE IF dbg /\ ~(/\ gamma_reshaped.data = gamma.data
                         /\ beta_reshaped.data = beta.data
                         /\ mean_reshaped.data = mean.data
                         /\ var_reshaped.data = var.data)
        THEN fail("assert")
        ELSE [err |-> "none", gamma |-> gamma_reshaped, beta |-> beta_reshaped,
              mean |-> mean_reshaped, var |-> var_reshaped, sorted_axis |-> sorted_axis]

\* ------------------------------------------------------------- array math
RECURSIVE SumOver(_, _, _)
\* Sum of the elements d[i], i in S, in dtype dt.
SumOver(dt, d, S) ==
    IF S = {} THEN Fin(0)
    ELSE LET i == CHOOSE k \in S : \A m \in S : k <= m
         IN  FAdd(dt, d[i], SumOver(dt, d, S \ {i}))

\* Array::AsType on a buffer.
AsType(dt, d) == [i \in DOMAIN d |-> Cast(dt, d[i])]

\* Mean(a, axis, keepdims = true) of a buffer of dtype dt: the sum over the
\* reduced elements divided by their count.
Mean(dt, d, shape, axes) ==
    [j \in 1..GetTotalSize(ReduceShape(shape, axes)) |->
        FDivN(dt, SumOver(dt, d, Members(shape, axes, j)), Cardinality(Members(shape, axes, j)))]

\* Var(a, axis, keepdims = true): the mean of the squared differences from
\* the mean (population variance, divisor n).
Var(dt, d, shape, axes) ==
    LET m == Mean(dt, d, shape, axes)
        diff == [i \in DOMAIN d |-> FSub(dt, d[i], m[CellOf(shape, axes, i)])]
        sq == [i \in DOMAIN d |-> FMul(dt, diff[i], diff[i])]
    IN  Mean(dt, sq, shape, axes)

\* ApplyBatchNorm: inv_std, and the buffer written to out.
ApplyBatchNorm(xd, gd, bd, md, vd, eps, xshape, axis, out_dtype, interm_dtype) ==
    LET x_cast == AsType(interm_dtype, xd)
        gamma_cast == AsType(interm_dtype, gd)
        beta_cast == AsType(interm_dtype, bd)
        mean_cast == AsType(interm_dtype, md)
        var_cast == AsType(interm_dtype, vd)
        inv_std == [j \in DOMAIN var_cast |->
                       FReciprocal(interm_dtype,
                           FSqrt(interm_dtype,
                               FAdd(interm_dtype, var_cast[j], Cast(interm_dtype, Fin(eps)))))]
        out_cast == [i \in DOMAIN x_cast |->
                        LET c == CellOf(xshape, axis, i)
                        IN  FAdd(interm_dtype,
                                FMul(interm_dtype,
                                    FMul(interm_dtype,
                                        FSub(interm_dtype, x_cast[i], mean_cast[c]),
                                        inv_std[c]),
                                    gamma_cast[c]),
                                beta_cast[c])]
    IN  [inv_std |-> inv_std, out |-> AsType(out_dtype, out_cast)]

\* Resolution of the decay scalar: decay is a multiple of 1/DecayDen in [0, 1].
DecayDen == 2

\* n = x.GetTotalSize() / gamma.GetTotalSize() where the divisor is not zero.
SampleCount(x_size, gamma_size) == x_size \div gamma_size

\* running_mean *= decay; running_mean += (inv_decay * x_mean).AsType(dtype).
UpdateRunningMean(rm, r_dtype, xm, interm_dtype, decay) ==
    LET inv_decay == DecayDen - decay
    IN  [j \in DOMAIN rm |->
            FAdd(r_dtype,
                FScale(r_dtype, decay, DecayDen, rm[j]),
                Cast(r_dtype, FScale(interm_dtype, inv_decay, DecayDen, xm[j])))]

\* std::max(n - 1, int64_t{1}).
MaxNMinus1(cnt) == IF cnt - 1 > 1 THEN cnt - 1 ELSE 1

\* A mistaken update of running_var that leaves out the factor
\* n / max(n - 1, 1).
UpdateRunningVarUncorrected(rv, r_dtype, xv, interm_dtype, decay, cnt) ==
    [j \in DOMAIN rv |->
        FAdd(r_dtype,
            FScale(r_dtype, decay, DecayDen, rv[j]),
            Cast(r_dtype, FScale(interm_dtype, DecayDen - decay, DecayDen, xv[j])))]

\* running_var *= decay;
\* running_var += (inv_decay * (n / max(n - 1, 1)) * x_var).AsType(dtype).
UpdateRunningVar(rv, r_dtype, xv, interm_dtype, decay, cnt) ==
    LET inv_decay == DecayDen - decay
    IN  [j \in DOMAIN rv |->
            FAdd(r_dtype,
                FScale(r_dtype, decay, DecayDen, rv[j]),
                Cast(r_dtype,
                    FScale(interm_dtype, inv_decay * cnt, DecayDen * MaxNMinus1(cnt), xv[j])))]

\* ------------------------------------------------------------- state
VARIABLES
    pc,         \* position of the call in progress
    entry,      \* the entry point of the call in progress, or of the last one
    args,       \* its arguments
    pre,        \* what PreprocessBatchNorm was given (gamma, beta, mean, var) and returned
    mem,        \* the contents of every buffer
    mem0,       \* mem when the call was entered
    op,         \* the operands handed to the backend operator
    x_mean, x_var, x_inv_std, n,   \* locals of GenericBatchNormForwardOp::Call
    state,      \* the state slot
    graph,      \* backward nodes registered with the autograd graph
    result      \* how the call ended

vars == <<pc, entry, args, pre, mem, mem0, op, x_mean, x_var, x_inv_std, n, state, graph, result>>

NoState == [set |-> FALSE, x_mean |-> <<>>, x_inv_std |-> <<>>, dtype |-> "float16"]
NoResult == [kind |-> "none", stage |-> "none"]
NoOp == [name |-> "none"]
NoArgs == [decay |-> 0]
NoPre == [err |-> "unused"]

CallerBuffers == {<<"x">>, <<"gamma">>, <<"beta">>, <<"mean">>, <<"var">>}

\* The buffers of the caller's arrays with the contents the call finds.
EntryMem(a) == [d \in CallerBuffers |-> a.data[d[1]]]

\* mem with buffer d set to content c (allocated if new).
Store(m, d, c) == [e \in DOMAIN m \cup {d} |-> IF e = d THEN c ELSE m[e]]

\* EmptyLike(x): a new array of x's shape and dtype on an uninitialized buffer.
EmptyLike(x, name) == Arr(name, x.shape, x.dtype, TRUE, FALSE)

Uninitialized(size) == [i \in 1..size |-> Uninit]

\* mem after the reshapes of preprocessing: a reshape that copies allocates a
\* buffer holding the copy.
RECURSIVE WithCopies(_, _, _)
WithCopies(m, ins, outs) ==
    IF ins = <<>> THEN m
    ELSE LET rest == WithCopies(m, Tail(ins), Tail(outs))
         IN  IF Head(outs).data = Head(ins).data THEN rest
             ELSE Store(rest, Head(outs).data, m[Head(ins).data])

Begin(a, e) ==
    /\ pc = "idle"
    /\ entry' = e
    /\ args' = a
    /\ mem0' = EntryMem(a)
    /\ x_mean' = <<>>
    /\ x_var' = <<>>
    /\ x_inv_std' = <<>>
    /\ n' = -1
    /\ state' = NoState

\* The record of one run of PreprocessBatchNorm.
PreRecord(gamma, beta, mean, var, p) ==
    [err |-> p.err, given |-> [gamma |-> gamma, beta |-> beta, mean |-> mean, var |-> var],
     gamma |-> p.gamma, beta |-> p.beta, mean |-> p.mean, var |-> p.var,
     sorted_axis |-> p.sorted_axis]

\* An error of preprocessing leaves the entry point: an exception, or the
\* abort of a failed assertion.
Throw(a, p) ==
    /\ pre' = p
    /\ mem' = EntryMem(a)
    /\ op' = NoOp
    /\ graph' = {}
    /\ result' = [kind |-> p.err, stage |-> "preprocess"]
    /\ pc' = IF p.err = "assert" THEN "aborted" ELSE "done"

\* A mistaken BatchNorm whose operator has begun on the running mean when the
\* error of preprocessing is thrown.
ThrowAfterUpdate(a, p) ==
    /\ pre' = p
    /\ mem' = Store(EntryMem(a), <<"mean">>,
                    [j \in DOMAIN a.data.mean |-> FScale(a.mean.dtype, 0, DecayDen, a.data.mean[j])])
    /\ op' = NoOp
    /\ graph' = {}
    /\ result' = [kind |-> p.err, stage |-> "preprocess"]
    /\ pc' = IF p.err = "assert" THEN "aborted" ELSE "done"

\* BatchNorm after preprocessing: out is allocated and BatchNormForwardOp is
\* dispatched on grad-stopped x, gamma, beta and on the running statistics.
DispatchForward(a, p) ==
    LET out == EmptyLike(a.x, "out")
    IN  /\ pre' = p
        /\ mem' = Store(WithCopies(EntryMem(a), <<p.given.gamma, p.given.beta, p.given.mean, p.given.var>>,
                                   <<p.gamma, p.beta, p.mean, p.var>>),
                        out.data, Uninitialized(GetTotalSize(out.shape)))
        /\ op' = [name |-> "BatchNormForwardOp",
                  x |-> AsGradStopped(a.x),
                  gamma |-> AsGradStopped(p.gamma),
                  beta |-> AsGradStopped(p.beta),
                  mean |-> p.mean,
                  var |-> p.var,
                  eps |-> a.eps, decay |-> a.decay, axis |-> p.sorted_axis,
                  out |-> out, want_state |-> TRUE, no_backprop |-> FALSE,
                  bb_inputs |-> <<a.x, p.gamma, p.beta>>]
        /\ graph' = {}
        /\ result' = NoResult
        /\ pc' = "stats"

BatchNormValidatesLate(a) ==
    /\ Begin(a, "BatchNorm")
    /\ \E dbg \in BOOLEAN :
       LET p == PreRecord(a.gamma, a.beta, a.mean, a.var,
                          PreprocessBatchNorm(a.x, a.gamma, a.beta, a.mean, a.var, a.axis, dbg))
       IN  IF p.err # "none" THEN ThrowAfterUpdate(a, p) ELSE DispatchForward(a, p)

\* BatchNorm, up to the dispatch of BatchNormForwardOp.
BatchNorm(a) ==
    /\ Begin(a, "BatchNorm")
    /\ \E dbg \in BOOLEAN :
       LET p == PreRecord(a.gamma, a.beta, a.mean, a.var,
                          PreprocessBatchNorm(a.x, a.gamma, a.beta, a.mean, a.var, a.axis, dbg))
       IN  IF p.err # "none" THEN Throw(a, p) ELSE DispatchForward(a, p)

\* A mistaken intermediate dtype in which the running statistics take part.
IntermDtypeOfAll(o) ==
    ResultType({o.x.dtype, o.gamma.dtype, o.beta.dtype, o.mean.dtype, o.var.dtype})

\* Dtype interm_dtype = ResultType(x, gamma, beta).
IntermDtype(o) == ResultType({o.x.dtype, o.gamma.dtype, o.beta.dtype})

\* GenericBatchNormForwardOp::Call: x_mean and x_var.  A reduction over an
\* axis that x does not have throws.
ForwardStats ==
    /\ pc = "stats"
    /\ LET interm_dtype == IntermDtype(op)
           x_cast == AsType(interm_dtype, mem[op.x.data])
       IN  IF GetSortedAxes(op.axis, Len(op.x.shape)).err # "none"
           THEN /\ result' = [kind |-> "AxisError", stage |-> "forward"]
                /\ pc' = "done"
                /\ UNCHANGED <<x_mean, x_var>>
           ELSE /\ x_mean' = Mean(interm_dtype, x_cast, op.x.shape, op.axis)
                /\ x_var' = Var(interm_dtype, x_cast, op.x.shape, op.axis)
                /\ pc' = "apply"
                /\ UNCHANGED result
    /\ UNCHANGED <<entry, args, pre, mem, mem0, op, x_inv_std, n, state, graph>>

\* GenericBatchNormForwardOp::Call: ApplyBatchNorm writes out.
ForwardApply ==
    /\ pc = "apply"
    /\ LET r == ApplyBatchNorm(mem[op.x.data], mem[op.gamma.data], mem[op.beta.data],
                               x_mean, x_var, op.eps, op.x.shape, op.axis,
                               op.out.dtype, IntermDtype(op))
       IN  /\ mem' = Store(mem, op.out.data, r.out)
           /\ x_inv_std' = r.inv_std
    /\ pc' = "update_mean"
    /\ UNCHANGED <<entry, args, pre, mem0, op, x_mean, x_var, n, state, graph, result>>

\* GenericBatchNormForwardOp::Call: n, and the update of running_mean.  The
\* integer division by a zero gamma.GetTotalSize() is undefined: it traps, or
\* it yields a value.
ForwardUpdateMean ==
    /\ pc = "update_mean"
    /\ \/ /\ GetTotalSize(op.gamma.shape) # 0
          /\ n' = SampleCount(GetTotalSize(op.x.shape), GetTotalSize(op.gamma.shape))
          /\ mem' = Store(mem, op.mean.data,
                          UpdateRunningMean(mem[op.mean.data], op.mean.dtype, x_mean,
                                            IntermDtype(op), op.decay))
          /\ pc' = "update_var"
          /\ UNCHANGED result
       \/ /\ GetTotalSize(op.gamma.shape) = 0
          /\ n' = 0
          /\ mem' = Store(mem, op.mean.data,
                          UpdateRunningMean(mem[op.mean.data], op.mean.dtype, x_mean,
                                            IntermDtype(op), op.decay))
          /\ pc' = "update_var"
          /\ UNCHANGED result
       \/ /\ GetTotalSize(op.gamma.shape) = 0
          /\ pc' = "crashed"
          /\ result' = [kind |-> "SIGFPE", stage |-> "forward"]
          /\ UNCHANGED <<n, mem>>
    /\ UNCHANGED <<entry, args, pre, mem0, op, x_mean, x_var, x_inv_std, state, graph>>

\* GenericBatchNormForwardOp::Call: the update of running_var.
ForwardUpdateVar ==
    /\ pc = "update_var"
    /\ mem' = Store(mem, op.var.data,
                    UpdateRunningVar(mem[op.var.data], op.var.dtype, x_var,
                                     IntermDtype(op), op.decay, n))
    /\ pc' = "capture"
    /\ UNCHANGED <<entry, args, pre, mem0, op, x_mean, x_var, x_inv_std, n, state, graph, result>>

\* A mistaken capture that stores the state whether or not a slot was given.
CaptureStateAlways(slot, want_state, xm, inv_std, interm_dtype) ==
    [set |-> TRUE, x_mean |-> xm, x_inv_std |-> inv_std, dtype |-> interm_dtype]

\* The state slot after `if (state.has_value()) state->reset(...)`.
CaptureState(slot, want_state, xm, inv_std, interm_dtype) ==
    IF want_state
    THEN [set |-> TRUE, x_mean |-> xm, x_inv_std |-> inv_std, dtype |-> interm_dtype]
    ELSE slot

\* GenericBatchNormForwardOp::Call: the state capture, and the return.
ForwardCapture ==
    /\ pc = "capture"
    /\ state' = CaptureState(state, op.want_state, x_mean, x_inv_std, IntermDtype(op))
    /\ IF entry = "BatchNorm"
       THEN pc' = "register" /\ UNCHANGED result
       ELSE pc' = "done" /\ result' = [kind |-> "ok", stage |-> "forward"]
    /\ UNCHANGED <<entry, args, pre, mem, mem0, op, x_mean, x_var, x_inv_std, n, graph>>

\* BatchNorm after the operator: BackwardBuilder defines the backward node
\* when an input requires gradients; the closure owns the state.
BatchNormReturn ==
    /\ pc = "register"
    /\ graph' = IF \E i \in DOMAIN op.bb_inputs : op.bb_inputs[i].grad
                THEN graph \cup {[name |-> "batch_norm",
                                  inputs |-> [i \in DOMAIN op.bb_inputs |-> op.bb_inputs[i].body],
                                  output |-> op.out.body, state |-> state]}
                ELSE graph
    /\ result' = [kind |-> "ok", stage |-> "return"]
    /\ pc' = "done"
    /\ UNCHANGED <<entry, args, pre, mem, mem0, op, x_mean, x_var, x_inv_std, n, state>>

\* Dtype interm_dtype = ResultType(x, gamma, beta, mean, var).
FixedIntermDtype(x, p) ==
    ResultType({x.dtype, p.gamma.dtype, p.beta.dtype, p.mean.dtype, p.var.dtype})

\* FixedBatchNorm after preprocessing: FixedBatchNormForwardOp is dispatched
\* in a no-backprop scope and GenericFixedBatchNormForwardOp::Call writes out.
FixedForward(a, p, out) ==
    LET m == WithCopies(EntryMem(a), <<p.given.gamma, p.given.beta, p.given.mean, p.given.var>>,
                        <<p.gamma, p.beta, p.mean, p.var>>)
    IN  /\ pre' = p
        /\ mem' = Store(m, out.data,
                        ApplyBatchNorm(m[a.x.data], m[p.gamma.data], m[p.beta.data],
                                       m[p.mean.data], m[p.var.data], a.eps,
                                       a.x.shape, p.sorted_axis, out.dtype,
                                       FixedIntermDtype(a.x, p)).out)
        /\ op' = [name |-> "FixedBatchNormForwardOp",
                  x |-> AsGradStopped(a.x),
                  gamma |-> p.gamma, beta |-> p.beta,
                  mean |-> p.mean, var |-> p.var,
                  eps |-> a.eps, decay |-> a.decay, axis |-> p.sorted_axis,
                  out |-> out, want_state |-> FALSE, no_backprop |-> TRUE,
                  bb_inputs |-> <<>>]
        /\ graph' = {}
        /\ result' = [kind |-> "ok", stage |-> "return"]
        /\ pc' = "done"

\* A mistaken FixedBatchNorm that normalizes x in place.
FixedBatchNormInPlace(a) ==
    /\ Begin(a, "FixedBatchNorm")
    /\ \E dbg \in BOOLEAN :
       LET p == PreRecord(AsGradStopped(a.gamma), AsGradStopped(a.beta),
                          AsGradStopped(a.mean), AsGradStopped(a.var),
                          PreprocessBatchNorm(a.x, AsGradStopped(a.gamma), AsGradStopped(a.beta),
                                              AsGradStopped(a.mean), AsGradStopped(a.var),
                                              a.axis, dbg))
       IN  IF p.err # "none" THEN Throw(a, p) ELSE FixedForward(a, p, a.x)

\* FixedBatchNorm.
FixedBatchNorm(a) ==
    /\ Begin(a, "FixedBatchNorm")
    /\ \E dbg \in BOOLEAN :
       LET p == PreRecord(AsGradStopped(a.gamma), AsGradStopped(a.beta),
                          AsGradStopped(a.mean), AsGradStopped(a.var),
                          PreprocessBatchNorm(a.x, AsGradStopped(a.gamma), AsGradStopped(a.beta),
                                              AsGradStopped(a.mean), AsGradStopped(a.var),
                                              a.axis, dbg))
       IN  IF p.err # "none" THEN Throw(a, p) ELSE FixedForward(a, p, EmptyLike(a.x, "out"))

\* What GenericBatchNormForwardOp::Call requires of its operands (its
\* assertions and those of ApplyBatchNorm): floating kinds, no graph nodes on
\* x, gamma, beta, sorted valid axes, gamma and beta of the reduced shape,
\* mean and var of the reduced size.
ForwardOpRequires(a) ==
    /\ \A r \in {a.x, a.gamma, a.beta, a.mean, a.var} : GetKind(r.dtype) = "kFloat"
    /\ ~a.x.grad /\ ~a.gamma.grad /\ ~a.beta.grad
    /\ a.axis.has
    /\ GetSortedAxes(a.axis.v, Len(a.x.shape)).err = "none"
    /\ GetSortedAxes(a.axis.v, Len(a.x.shape)).axes = a.axis.v
    /\ a.gamma.shape = ReduceShape(a.x.shape, a.axis.v)
    /\ a.beta.shape = ReduceShape(a.x.shape, a.axis.v)
    /\ GetTotalSize(a.mean.shape) = GetTotalSize(ReduceShape(a.x.shape, a.axis.v))
    /\ GetTotalSize(a.var.shape) = GetTotalSize(ReduceShape(a.x.shape, a.axis.v))

\* A direct dispatch of BatchNormForwardOp on prepared operands, with or
\* without a state slot.
BatchNormForwardOp(a, want_state) ==
    /\ Begin(a, "BatchNormForwardOp")
    /\ ForwardOpRequires(a)
    /\ LET out == EmptyLike(a.x, "out")
       IN  /\ mem' = Store(EntryMem(a), out.data, Uninitialized(GetTotalSize(out.shape)))
           /\ op' = [name |-> "BatchNormForwardOp",
                     x |-> a.x, gamma |-> a.gamma, beta |-> a.beta,
                     mean |-> a.mean, var |-> a.var,
                     eps |-> a.eps, decay |-> a.decay, axis |-> a.axis.v,
                     out |-> out, want_state |-> want_state, no_backprop |-> FALSE,
                     bb_inputs |-> <<>>]
    /\ pre' = NoPre
    /\ graph' = {}
    /\ result' = NoResult
    /\ pc' = "stats"

\* ------------------------------------------------------------- inputs
NoAxis == [has |-> FALSE, v |-> <<>>]
Axis(v) == [has |-> TRUE, v |-> v]

\* Axis selections: none, or up to two indices (enough for a repeated pair)
\* from -(MaxRank+1) .. MaxRank, so that out-of-range, negative and repeated
\* indices all occur.
AxisOpts == {NoAxis} \cup {Axis(v) : v \in UNION {[1..k -> (0 - MaxRank - 1)..MaxRank] : k \in 0..2}}

\* x holds 0, 1, 2, ... ("ramp") or 1, 1, 1, ... ("const"), as multiples of 1.0.
XData(size, pat) == [i \in 1..size |-> Fin(One * (IF pat = "ramp" THEN i - 1 ELSE 1))]
Filled(size, v) == [i \in 1..size |-> Fin(One * v)]

MkArgs(x, gamma, beta, mean, var, axis, eps, decay, pat) ==
    [x |-> x, gamma |-> gamma, beta |-> beta, mean |-> mean, var |-> var,
     axis |-> axis, eps |-> eps, decay |-> decay,
     data |-> [x |-> IF GetKind(x.dtype) = "kFloat" THEN XData(GetTotalSize(x.shape), pat)
                     ELSE Filled(GetTotalSize(x.shape), 1),
               gamma |-> Filled(GetTotalSize(gamma.shape), 2),
               beta |-> Filled(GetTotalSize(beta.shape), 1),
               mean |-> Filled(GetTotalSize(mean.shape), 3),
               var |-> Filled(GetTotalSize(var.shape), 1)]]

\* Every shape of x without an empty dimension, with every axis selection;
\* the four auxiliaries flat, of one size.
ArgsAxes ==
    {MkArgs(Arr("x", xs, "float32", TRUE, FALSE),
            Arr("gamma", <<k>>, "float32", TRUE, FALSE),
            Arr("beta", <<k>>, "float32", TRUE, FALSE),
            Arr("mean", <<k>>, "float32", TRUE, FALSE),
            Arr("var", <<k>>, "float32", TRUE, FALSE),
            ax, 1, 1, "ramp") :
        xs \in UNION {[1..r -> 1..MaxExtent] : r \in 0..MaxRank}, k \in {1, MaxExtent},
        ax \in AxisOpts}

\* Shapes of the auxiliaries: flat, or [1, k].
AuxShapes == {<<k>> : k \in 0..MaxExtent} \cup {<<1, k>> : k \in 0..MaxExtent}

\* Every matrix x; the auxiliaries of one shape, but for one of them, whose
\* shape may differ.
ArgsSizes ==
    {MkArgs(Arr("x", xs, "float32", TRUE, FALSE),
            Arr("gamma", IF odd = "gamma" THEN alt ELSE s, "float32", TRUE, FALSE),
            Arr("beta", IF odd = "beta" THEN alt ELSE s, "float32", TRUE, FALSE),
            Arr("mean", IF odd = "mean" THEN alt ELSE s, "float32", TRUE, FALSE),
            Arr("var", IF odd = "var" THEN alt ELSE s, "float32", TRUE, FALSE),
            NoAxis, 1, 1, "ramp") :
        xs \in [1..2 -> 0..MaxExtent], s \in AuxShapes, alt \in AuxShapes,
        odd \in {"gamma", "beta", "mean", "var"}}

\* The features of x fill a square; the auxiliaries have the reduced shape,
\* but for one of them, which is a square matrix whose layout may forbid a
\* view (a transposed one).
ArgsLayout ==
    {MkArgs(Arr("x", <<k, MaxExtent * MaxExtent>>, "float32", TRUE, FALSE),
            Arr("gamma", IF odd = "gamma" THEN <<MaxExtent, MaxExtent>> ELSE <<1, MaxExtent * MaxExtent>>,
                "float32", odd # "gamma" \/ permits, FALSE),
            Arr("beta", IF odd = "beta" THEN <<MaxExtent, MaxExtent>> ELSE <<1, MaxExtent * MaxExtent>>,
                "float32", odd # "beta" \/ permits, FALSE),
            Arr("mean", IF odd = "mean" THEN <<MaxExtent, MaxExtent>> ELSE <<1, MaxExtent * MaxExtent>>,
                "float32", odd # "mean" \/ permits, FALSE),
            Arr("var", IF odd = "var" THEN <<MaxExtent, MaxExtent>> ELSE <<1, MaxExtent * MaxExtent>>,
                "float32", odd # "var" \/ permits, FALSE),
            NoAxis, 1, 1, "ramp") :
        k \in {1, 2}, odd \in {"gamma", "beta", "mean", "var"}, permits \in BOOLEAN}

\* Every combination of dtypes.
ArgsDtypes ==
    {MkArgs(Arr("x", <<MaxExtent, 1>>, xdt, TRUE, FALSE),
            Arr("gamma", <<1>>, gdt, TRUE, FALSE),
            Arr("beta", <<1, 1>>, bdt, TRUE, FALSE),
            Arr("mean", <<1>>, mdt, TRUE, FALSE),
            Arr("var", <<1, 1>>, vdt, TRUE, FALSE),
            NoAxis, 1, 1, "ramp") :
        xdt \in Dtypes, gdt \in Dtypes, bdt \in Dtypes, mdt \in Dtypes, vdt \in Dtypes}

\* Inputs attached to the autograd graph, conforming or not.
ArgsGrad ==
    {MkArgs(Arr("x", <<MaxExtent, 1>>, "float32", TRUE, xg),
            Arr("gamma", <<1>>, "float32", TRUE, gg),
            Arr("beta", <<1, 1>>, "float32", TRUE, bg),
            Arr("mean", <<1>>, "float32", TRUE, mg),
            Arr("var", <<k>>, "float32", TRUE, FALSE),
            NoAxis, 1, 1, "ramp") :
        xg \in BOOLEAN, gg \in BOOLEAN, bg \in BOOLEAN, mg \in BOOLEAN, k \in {1, 2}}

\* The cases of (pattern of x, eps): eps is 0 or 1/4.
NumericCases == {<<"ramp", 1>>, <<"ramp", 0>>, <<"const", 0>>}

\* Conforming operands (x a vector or a matrix, reduced over axis 0) with
\* every decay and with floating dtypes for x, for the parameters and for the
\* statistics.
ArgsNumeric ==
    {MkArgs(Arr("x", xs, xdt, TRUE, FALSE),
            Arr("gamma", ReduceShape(xs, <<0>>), pdt, TRUE, FALSE),
            Arr("beta", ReduceShape(xs, <<0>>), pdt, TRUE, FALSE),
            Arr("mean", ReduceShape(xs, <<0>>), rdt, TRUE, FALSE),
            Arr("var", ReduceShape(xs, <<0>>), rdt, TRUE, FALSE),
            Axis(<<0>>), c[2], decay, c[1]) :
        xs \in [1..1 -> 0..MaxExtent] \cup [1..2 -> 0..MaxExtent],
        xdt \in FloatDtypes, pdt \in FloatDtypes, rdt \in FloatDtypes,
        decay \in 0..DecayDen, c \in NumericCases}

CallArgs == ArgsAxes \cup ArgsSizes \cup ArgsLayout \cup ArgsDtypes \cup ArgsGrad \cup ArgsNumeric

\* Operands of the direct dispatches of the operator.
OpArgs == {a \in ArgsNumeric : a.x.dtype = "float32" /\ a.mean.dtype = "float32"}

\* ------------------------------------------------------------- behaviour
Init ==
    /\ pc = "idle"
    /\ entry = "none"
    /\ args = NoArgs
    /\ pre = NoPre
    /\ mem = [d \in {} |-> <<>>]
    /\ mem0 = [d \in {} |-> <<>>]
    /\ op = NoOp
    /\ x_mean = <<>>
    /\ x_var = <<>>
    /\ x_inv_std = <<>>
    /\ n = -1
    /\ state = NoState
    /\ graph = {}
    /\ result = NoResult

Next ==
    \/ pc = "idle" /\ \E a \in CallArgs : BatchNorm(a)
    \/ pc = "idle" /\ \E a \in CallArgs : FixedBatchNorm(a)
    \/ pc = "idle" /\ \E a \in OpArgs, w \in BOOLEAN : BatchNormForwardOp(a, w)
    \/ ForwardStats
    \/ ForwardApply
    \/ ForwardUpdateMean
    \/ ForwardUpdateVar
    \/ ForwardCapture
    \/ BatchNormReturn

Spec == Init /\ [][Next]_vars

\* ------------------------------------------------------------- claims
\* The call in progress, or ended, came through an entry point that
\* preprocesses.
Preprocessed == entry \in {"BatchNorm", "FixedBatchNorm"}

AllFloating(a) == \A r \in {a.x, a.gamma, a.beta, a.mean, a.var} : r.dtype \in FloatDtypes

\* The axis selection as the claims read it: absent is {0}; a negative index
\* counts from the rank of x.
ResolvedAxes(a) ==
    IF a.axis.has
    THEN [i \in DOMAIN a.axis.v |->
             IF a.axis.v[i] < 0 THEN a.axis.v[i] + Len(a.x.shape) ELSE a.axis.v[i]]
    ELSE <<0>>

AxesValid(a) ==
    LET r == ResolvedAxes(a)
    IN  /\ \A i \in DOMAIN r : r[i] \in 0..(Len(a.x.shape) - 1)
        /\ \A i, j \in DOMAIN r : i # j => r[i] # r[j]

RECURSIVE ProductWhere(_, _, _, _)
\* The product of the extents shape[d], d >= from, whose axis d - 1 is in
\* `axes` (sel) or is not (~sel).
ProductWhere(shape, axes, sel, from) ==
    IF from > Len(shape) THEN 1
    ELSE (IF ((from - 1) \in axes) = sel THEN shape[from] ELSE 1)
         * ProductWhere(shape, axes, sel, from + 1)

\* R: the element count of the reduced shape.
KeptSize(a) == ProductWhere(a.x.shape, Range(ResolvedAxes(a)), FALSE, 1)

\* The product of the extents of the selected axes.
SelectedCount(a) == ProductWhere(a.x.shape, Range(ResolvedAxes(a)), TRUE, 1)

AuxNames == {"gamma", "beta", "mean", "var"}

SizeMismatch(a) == \E k \in AuxNames : Len(a.data[k]) # KeptSize(a)

ThrownKinds == {"DtypeError", "AxisError", "DimensionError"}

\* C1: when the preprocessing of a BatchNorm call raises an error, the
\* forward operator has not run: every buffer of the caller, running_mean and
\* running_var among them, holds what it held when the call was entered, no
\* state is captured and no backward node is registered.
C1_PreprocessErrorBeforeForward ==
    (entry = "BatchNorm" /\ result.stage = "preprocess") =>
        /\ mem = mem0
        /\ op = NoOp
        /\ x_mean = <<>> /\ x_var = <<>> /\ x_inv_std = <<>> /\ n = -1
        /\ state = NoState
        /\ graph = {}

C1_Witness ==
    /\ entry = "BatchNorm"
    /\ result.kind = "DimensionError"
    /\ args.decay # DecayDen
    /\ Len(mem0[<<"mean">>]) > 0
    /\ mem0[<<"mean">>][1] # Fin(0)

\* C2: PreprocessBatchNorm validates the resolved axis indices, those of the
\* absent selection included, against the rank of x: an index out of range or
\* repeated is rejected with an axis error, and otherwise the indices are
\* returned sorted ascending.
C2_ResolvedAxesValidated ==
    (Preprocessed /\ AllFloating(args)) =>
        /\ ~AxesValid(args) => (result.kind = "AxisError" /\ result.stage = "preprocess")
        /\ (AxesValid(args) /\ pre.err = "none") =>
               /\ Range(pre.sorted_axis) = Range(ResolvedAxes(args))
               /\ \A i \in 1..(Len(pre.sorted_axis) - 1) : pre.sorted_axis[i] < pre.sorted_axis[i + 1]

\* C3: with floating inputs and a valid axis selection, PreprocessBatchNorm
\* raises DimensionError exactly when one of gamma, beta, mean, var has an
\* element count other than R; when all four counts are R it throws nothing.
C3_DimensionErrorIffSizeMismatch ==
    (Preprocessed /\ AllFloating(args) /\ AxesValid(args)) =>
        /\ (result.kind = "DimensionError") <=> SizeMismatch(args)
        /\ ~SizeMismatch(args) => ~(result.stage = "preprocess" /\ result.kind \in ThrownKinds)

C3_Witness ==
    /\ Preprocessed /\ AllFloating(args) /\ AxesValid(args)
    /\ result.kind = "DimensionError"
    /\ KeptSize(args) > 0
    /\ \A k \in AuxNames : (Len(args.data[k]) # KeptSize(args)) <=> (k = "var")

\* C4: whenever PreprocessBatchNorm returns, each returned auxiliary has the
\* reduced shape and the data of its input (no copy), and an input that has
\* the reduced shape already is returned as the identical array.
C4_AuxiliariesShareStorage ==
    (Preprocessed /\ pre.err = "none") =>
        \A k \in AuxNames :
            /\ GetTotalSize(pre[k].shape) = KeptSize(args)
            /\ Len(pre[k].shape) = Len(args.x.shape)
            /\ \A d \in DOMAIN pre[k].shape :
                   pre[k].shape[d] = IF (d - 1) \in Range(ResolvedAxes(args)) THEN 1 ELSE args.x.shape[d]
            /\ pre[k].data = pre.given[k].data
            /\ (pre.given[k].shape = pre[k].shape) => (pre[k] = pre.given[k])

\* The training forward has updated both running statistics.
Updated ==
    /\ op.name = "BatchNormForwardOp"
    /\ pc \in {"capture", "register", "done"}
    /\ result.kind \in {"none", "ok"}

\* C5: with decay = 1 the training forward leaves running_mean and
\* running_var as they were, element for element, whatever x_mean and x_var.
C5_DecayOneKeepsStatistics ==
    (Updated /\ op.decay = DecayDen) =>
        /\ mem[op.mean.data] = mem0[<<"mean">>]
        /\ mem[op.var.data] = mem0[<<"var">>]

\* The widest of a set of floating dtypes.
Widest(dts) ==
    IF "float64" \in dts THEN "float64" ELSE IF "float32" \in dts THEN "float32" ELSE "float16"

\* The dtype the claims call intermediate: the promotion of x, gamma, beta.
Promoted == Widest({op.x.dtype, op.gamma.dtype, op.beta.dtype})

\* The population mean (divisor cnt) of the elements of xd reduced into cell j.
PopulationMean(dt, xd, shape, axes, cnt, j) ==
    FDivN(dt, SumOver(dt, xd, Members(shape, axes, j)), cnt)

\* The population variance (divisor cnt) of the elements reduced into cell j.
PopulationVar(dt, xd, shape, axes, cnt, j) ==
    LET sq == [i \in DOMAIN xd |->
                  LET dev == FSub(dt, xd[i],
                                  PopulationMean(dt, xd, shape, axes, cnt, CellOf(shape, axes, i)))
                  IN  FMul(dt, dev, dev)]
    IN  FDivN(dt, SumOver(dt, sq, Members(shape, axes, j)), cnt)

\* decay * old + (1 - decay) * factor * stat, in the dtype rdt of the running
\* statistic, the increment computed in dt; factor = fnum / fden.
Blend(rdt, dt, decay, fnum, fden, old, stat) ==
    FAdd(rdt, FScale(rdt, decay, DecayDen, old),
              Cast(rdt, FScale(dt, (DecayDen - decay) * fnum, DecayDen * fden, stat)))

\* n / max(n - 1, 1), as numerator and denominator.
Bessel(cnt) == IF cnt >= 2 THEN <<cnt, cnt - 1>> ELSE <<cnt, 1>>

\* running_mean and running_var as the update rule of the claims gives them.
ExpectedRunningMean ==
    [j \in DOMAIN mem0[<<"mean">>] |->
        Blend(op.mean.dtype, Promoted, op.decay, 1, 1, mem0[<<"mean">>][j], x_mean[j])]

ExpectedRunningVar ==
    [j \in DOMAIN mem0[<<"var">>] |->
        Blend(op.var.dtype, Promoted, op.decay, Bessel(n)[1], Bessel(n)[2],
              mem0[<<"var">>][j], x_var[j])]

\* C6: after a training forward, x_mean and x_var are the population mean and
\* variance (divisor n) of x over the selected axes, n = x.size / gamma.size,
\* running_mean = decay * old + (1 - decay) * x_mean and running_var =
\* decay * old + (1 - decay) * (n / max(n - 1, 1)) * x_var; with decay = 0
\* they are x_mean and (n / max(n - 1, 1)) * x_var cast to their dtypes; with
\* n = 1 the factor is 1; and the variance that normalizes the output is the
\* population variance, without the factor.
C6_RunningStatisticsUpdate ==
    Updated =>
        LET xd == AsType(Promoted, mem[op.x.data])
            cells == 1..GetTotalSize(op.gamma.shape)
        IN  /\ GetTotalSize(op.gamma.shape) # 0 =>
                   n = GetTotalSize(op.x.shape) \div GetTotalSize(op.gamma.shape)
            /\ DOMAIN x_mean = cells /\ DOMAIN x_var = cells /\ DOMAIN x_inv_std = cells
            /\ DOMAIN mem[op.mean.data] = cells /\ DOMAIN mem[op.var.data] = cells
            /\ \A j \in cells :
                   /\ x_mean[j] = PopulationMean(Promoted, xd, op.x.shape, op.axis, n, j)
                   /\ x_var[j] = PopulationVar(Promoted, xd, op.x.shape, op.axis, n, j)
                   /\ mem[op.mean.data][j] = ExpectedRunningMean[j]
                   /\ mem[op.var.data][j] = ExpectedRunningVar[j]
                   /\ (op.decay = 0 /\ IsFinite(x_mean[j]) /\ IsFinite(x_var[j])) =>
                          /\ mem[op.mean.data][j] = Cast(op.mean.dtype, x_mean[j])
                          /\ mem[op.var.data][j] =
                                 Cast(op.var.dtype,
                                      FScale(Promoted, Bessel(n)[1], Bessel(n)[2], x_var[j]))
                   /\ n = 1 =>
                          mem[op.var.data][j] =
                              Blend(op.var.dtype, Promoted, op.decay, 1, 1,
                                    mem0[<<"var">>][j], x_var[j])
                   /\ x_inv_std[j] =
                          FReciprocal(Promoted,
                              FSqrt(Promoted,
                                  FAdd(Promoted, x_var[j], Cast(Promoted, Fin(op.eps)))))

C6_Witness ==
    /\ Updated /\ pc = "done" /\ entry = "BatchNorm"
    /\ n = 2 /\ op.decay = 1 /\ op.decay < DecayDen
    /\ \E j \in DOMAIN x_var :
           /\ IsFinite(x_var[j]) /\ x_var[j].v > 0
           /\ mem[op.var.data][j] # mem0[<<"var">>][j]
           /\ mem[op.mean.data][j] # mem0[<<"mean">>][j]

\* C7: a call of FixedBatchNorm leaves the contents of x, gamma, beta, mean
\* and var as it found them, writes no state slot, updates no running
\* statistic and registers no backward node: its operator runs in a
\* no-backprop scope, on grad-stopped operands, and writes a new array.
C7_FixedBatchNormNoSideEffects ==
    (entry = "FixedBatchNorm" /\ pc # "idle") =>
        /\ \A d \in CallerBuffers : d \in DOMAIN mem /\ mem[d] = mem0[d]
        /\ state = NoState
        /\ graph = {}
        /\ n = -1 /\ x_mean = <<>> /\ x_var = <<>> /\ x_inv_std = <<>>
        /\ result.kind = "ok" =>
               /\ op.name = "FixedBatchNormForwardOp"
               /\ op.no_backprop
               /\ ~op.want_state
               /\ \A r \in {op.x, op.gamma, op.beta, op.mean, op.var, op.out} : ~r.grad
               /\ op.out.data \notin CallerBuffers

C7_Witness ==
    /\ entry = "FixedBatchNorm" /\ pc = "done" /\ result.kind = "ok"
    /\ args.x.grad /\ args.gamma.grad /\ args.mean.grad
    /\ \E i \in DOMAIN mem[op.out.data] :
           IsFinite(mem[op.out.data][i]) /\ mem[op.out.data][i] # mem[<<"x">>][i]

\* Every finite element of buffer d is representable in dtype dt.
OnGrid(dt, d) == \A i \in DOMAIN d : IsFinite(d[i]) => d[i].v % Grid(dt) = 0

\* A training forward has returned.
Trained == op.name = "BatchNormForwardOp" /\ pc = "done" /\ result.kind = "ok"

\* C8: a training call on floating dtypes computes in the promotion of the
\* dtypes of x, gamma and beta alone; out has the dtype of x; running_mean and
\* running_var keep their dtypes; the captured x_mean and x_inv_std are in
\* the intermediate dtype.
C8_DtypeDiscipline ==
    Trained =>
        /\ state.set =>
               /\ state.dtype = Promoted
               /\ OnGrid(Promoted, state.x_mean)
               /\ OnGrid(Promoted, state.x_inv_std)
        /\ OnGrid(Promoted, x_mean) /\ OnGrid(Promoted, x_var) /\ OnGrid(Promoted, x_inv_std)
        /\ op.out.dtype = args.x.dtype
        /\ OnGrid(args.x.dtype, mem[op.out.data])
        /\ op.mean.dtype = args.mean.dtype
        /\ OnGrid(args.mean.dtype, mem[op.mean.data])
        /\ op.var.dtype = args.var.dtype
        /\ OnGrid(args.var.dtype, mem[op.var.data])

C8_Witness ==
    /\ Trained /\ entry = "BatchNorm"
    /\ args.x.dtype = "float32" /\ args.gamma.dtype = "float64" /\ args.beta.dtype = "float64"
    /\ args.mean.dtype = "float16" /\ args.var.dtype = "float16"
    /\ state.set /\ state.dtype = "float64"
    /\ op.out.dtype = "float32"

\* No element of buffer d has been written.
Unwritten(d) == \A i \in DOMAIN d : d[i] = Uninit
Written(d) == \A i \in DOMAIN d : d[i] # Uninit

\* C9: within a training forward, x_mean and x_var are computed first, then
\* out is written, then running_mean and then running_var are updated, and
\* only then is (x_mean, x_inv_std) stored into the state slot; what is
\* stored is the batch mean of x, and it is stored only when a slot was
\* requested.
C9_ForwardStepOrder ==
    (op.name = "BatchNormForwardOp" /\ result.kind \in {"none", "ok"}) =>
        LET out == mem[op.out.data]
            mean == mem[op.mean.data]
            var == mem[op.var.data]
            cells == 1..GetTotalSize(ReduceShape(op.x.shape, op.axis))
            computed == DOMAIN x_mean = cells /\ DOMAIN x_var = cells
        IN  /\ pc = "stats" =>
                   /\ x_mean = <<>> /\ x_var = <<>> /\ x_inv_std = <<>>
                   /\ Unwritten(out) /\ mean = mem0[<<"mean">>] /\ var = mem0[<<"var">>]
                   /\ ~state.set
            /\ pc = "apply" =>
                   /\ computed
                   /\ Unwritten(out) /\ mean = mem0[<<"mean">>] /\ var = mem0[<<"var">>]
                   /\ ~state.set
            /\ pc = "update_mean" =>
                   /\ computed /\ Written(out)
                   /\ mean = mem0[<<"mean">>] /\ var = mem0[<<"var">>]
                   /\ ~state.set
            /\ pc = "update_var" =>
                   /\ computed /\ Written(out)
                   /\ mean = ExpectedRunningMean /\ var = mem0[<<"var">>]
                   /\ ~state.set
            /\ pc = "capture" =>
                   /\ computed /\ Written(out)
                   /\ mean = ExpectedRunningMean /\ var = ExpectedRunningVar
                   /\ ~state.set
            /\ pc \in {"register", "done"} =>
                   /\ computed /\ Written(out)
                   /\ mean = ExpectedRunningMean /\ var = ExpectedRunningVar
                   /\ state.set <=> op.want_state
            /\ state.set =>
                   /\ state.x_mean = x_mean /\ state.x_inv_std = x_inv_std
                   /\ \A j \in cells :
                          state.x_mean[j] =
                              PopulationMean(Promoted, AsType(Promoted, mem[op.x.data]),
                                             op.x.shape, op.axis,
                                             Cardinality(Members(op.x.shape, op.axis, j)), j)

C9_Witness ==
    /\ op.name = "BatchNormForwardOp" /\ pc = "done" /\ result.kind = "ok"
    /\ state.set
    /\ Len(state.x_mean) > 0
    /\ mem[op.mean.data] # mem0[<<"mean">>]
    /\ mem[op.var.data] # mem0[<<"var">>]
    /\ \A j \in DOMAIN state.x_mean :
           IsFinite(state.x_mean[j]) /\ Cast(op.mean.dtype, state.x_mean[j]) # mem[op.mean.data][j]

\* C10: for every input that PreprocessBatchNorm accepts, gamma.size is not
\* zero, and n = x.size / gamma.size is the product of the extents of the
\* selected axes and is at least 1.
C10_SampleCountWellDefined ==
    (entry = "BatchNorm" /\ pre.err = "none") =>
        /\ GetTotalSize(pre.gamma.shape) # 0
        /\ GetTotalSize(args.x.shape) \div GetTotalSize(pre.gamma.shape) = SelectedCount(args)
        /\ GetTotalSize(args.x.shape) \div GetTotalSize(pre.gamma.shape) >= 1
        /\ pc # "crashed"
        /\ Updated => n = SelectedCount(args)

====
